---- MODULE Spec2Model ----
(***************************************************************************)
(* Creep-spread simulation of Zerg (core.js + renderer.js driver).         *)
(*                                                                         *)
(* Five specifications: Spec is the simulation (initGrid as one step,     *)
(* spreadCreep with its discoveries and hatchery spawns); GrowthSpec is the *)
(* growth phase on the smallest grids with no bound on the steps, under     *)
(* fairness; DriverSpec is the frame loop of renderer.js with the ripples;  *)
(* PlacementSpec is the pair of rejection-sampling loops inside initGrid;   *)
(* ClassifySpec is the two terrain classification passes inside initGrid.   *)
(*                                                                         *)
(* Units: creepAge is kept in fifths (the per-step increment 0.2 is 1, the *)
(* clamp 100 is 500); resourceBoost is kept in tenths (1.0 is 10, the clamp *)
(* 3.0 is 30); terrainHeight is kept in thousandths.  Cells are linear      *)
(* indices 0 .. cols*rows-1 as in the code.                                 *)
(* activeEdges / newEdges are JS Sets: insertion-ordered, no duplicates,    *)
(* and a for-of loop over a Set also visits members appended while the     *)
(* loop is running; they are modelled as duplicate-free sequences with an  *)
(* iterator position.                                                      *)
(***************************************************************************)
EXTENDS Integers, Sequences, FiniteSets, TLC

VARIABLES
    cols, rows,            \* grid dimensions
    terrainType,           \* [cell -> 0..4]
    terrainHeight,         \* [cell -> thousandths]
    startCorner,           \* [x, y, dirX, dirY]
    creepGrid,             \* [cell -> {0,1}]
    creepAge,              \* [cell -> fifths]
    minerals, vespene,     \* sequences of [x, y, depleted]
    buildings,             \* sequence of [x, y, type]
    activeEdges,           \* insertion-ordered set of cells
    totalVisibleCells, isSaturated, creepCount, resourceBoost,
    mineralsGathered, vespeneGathered,
    \* ---- locals of a running spreadCreep ----
    pc,                    \* "idle" | "scan" | "roll"
    newEdges, toRemove, currentBoost,
    pos,                   \* iterator position in activeEdges (1-based)
    k,                     \* index of the neighbour evaluated next (1..8), 9 = done
    hasEmptyNeighbor,
    resMod,                \* boost returned by checkResource, 0 outside a roll
    \* ---- observation (history) variables ----
    lastOp,                \* name of the last operation that acted
    steps,                 \* spreadCreep steps begun in this cycle
    startFrontier,         \* frontier membership when the running/last step began
    boostAtEntry,          \* resourceBoost when the running step began, 0 outside a step
    scanned,               \* cells visited by the running/last step
    minFound, vesFound,    \* per deposit: how often its discovery branch ran
    hatcheriesSpawned,     \* successful maybeSpawnHatcheryNear runs in this cycle
    \* ---- locals of the placement loops of initGrid ----
    placePc,               \* "sample" | "record" | "done"
    placeKind,             \* "minerals" | "vespene" | "none"
    slot,                  \* loop index i
    sampleX, sampleY,      \* cx, cy
    attempts,
    \* ---- locals of the classification passes of initGrid ----
    classPc,               \* "assign" | "cliffs" | "done"
    expandedWater,         \* cells of the expanded water mask
    \* ---- the frame loop (renderer.js animate) ----
    ripples,               \* sequence of [radius, maxRadius, speed], in tenths
    sinceSpread,           \* time - lastSpread in ms, kept up to spreadInterval + 1
    sinceRipple,           \* time - lastRipple in ms, kept up to rippleInterval + 1
    framePc,               \* "wait" | "spread" | "spreading" | "ripple" | "update"
    inGrowing,             \* outcome of the frame's if (!isSaturated) test
    spentBefore            \* history: the last initGrid replaced a used world

simVars == <<creepGrid, creepAge, minerals, vespene, buildings, activeEdges,
             creepCount, resourceBoost, mineralsGathered, vespeneGathered>>
worldVars == <<cols, rows, startCorner, totalVisibleCells>>
terrainVars == <<terrainType, terrainHeight>>
localVars == <<pc, newEdges, toRemove, currentBoost, pos, k, hasEmptyNeighbor, resMod>>
histVars == <<lastOp, steps, startFrontier, boostAtEntry, scanned, minFound, vesFound, hatcheriesSpawned>>
placeVars == <<placePc, placeKind, slot, sampleX, sampleY, attempts>>
classVars == <<classPc, expandedWater>>
frameVars == <<sinceSpread, sinceRipple, framePc, inGrowing>>
driverVars == <<ripples, spentBefore, frameVars>>
vars == <<worldVars, terrainVars, simVars, isSaturated, localVars, histVars, placeVars,
          classVars, driverVars>>

-----------------------------------------------------------------------------
(* Bounds of the model *)

\* spreadCreep steps explored per cycle
MaxSteps == 3

\* slots of each placement loop explored
MaxSlots == 1

\* side of the square height fields the classification is applied to
FieldSide == 3

-----------------------------------------------------------------------------
(* Program constants *)

\* attempt limit of the placement loops
AttemptLimit == 100
HATCHERY_MINERAL_COST == 2
HATCHERY_VESPENE_COST == 1
mineralRadiusSq == 25
vespeneRadiusSq == 36
SpawnRadius == 4
\* faulty variant: creep cannot spread over water
terrainSpreadModsNoWater == <<100, 90, 75, 20, 0>>

\* terrainSpreadMods, in hundredths
terrainSpreadMods == <<100, 90, 75, 20, 15>>

AgeUnit == 5
SeedAge == 50 * AgeUnit
SpawnAge == 20 * AgeUnit
GrowAge == 1 * AgeUnit
MaxAge == 100 * AgeUnit
BoostUnit == 10
\* faulty variant: initGrid sets resourceBoost to 1.5
BoostInitRaised == BoostUnit + BoostUnit \div 2

BoostInit == 1 * BoostUnit
BoostMax == 3 * BoostUnit
BoostMineral == BoostUnit \div 2
BoostVespene == 1 * BoostUnit

\* faulty variant: a fresh world starts saturated
InitialSaturatedTrue == TRUE

\* isSaturated = false in initGrid
InitialSaturated == FALSE

-----------------------------------------------------------------------------
(* Helpers *)

Max(a, b) == IF a >= b THEN a ELSE b
Min(a, b) == IF a <= b THEN a ELSE b

SeqToSet(s) == {s[i] : i \in 1..Len(s)}

\* Set.prototype.add on an insertion-ordered set
SetAdd(s, e) == IF e \in SeqToSet(s) THEN s ELSE Append(s, e)

\* Set.prototype.delete of every member of a list
SetDeleteAll(s, del) == SelectSeq(s, LAMBDA e : e \notin SeqToSet(del))

RECURSIVE SetAddAll(_, _)
SetAddAll(s, add) ==
    IF add = <<>> THEN s ELSE SetAddAll(SetAdd(s, Head(add)), Tail(add))

InBounds(x, y) == ~(x < 0 \/ x >= cols \/ y < 0 \/ y >= rows)

Cells == 0 .. (cols * rows - 1)

\* the 8 neighbour offsets in the order spreadCreep evaluates them
neighbors == << <<-1, -1>>, <<0, -1>>, <<1, -1>>,
                <<-1, 0>>,             <<1, 0>>,
                <<-1, 1>>,  <<0, 1>>,  <<1, 1>> >>

-----------------------------------------------------------------------------
(* World generation: initGrid *)

\* Heights are kept in thousandths (0.45 is 450).  The thresholds of the
\* generation code:
WaterCentreMax == 450      \* a body needs a centre with height <= 0.45
WaterFloodBelow == 500     \* a body floods cells with height < 0.50
WaterExpandBelow == 480    \* the expansion takes cells with height < 0.48
LowGroundBelow == 320      \* height < 0.32 is low ground
MidGroundBelow == 600      \* height < 0.6 is mid ground
CliffDiff == 80            \* a 4-neighbour difference > 0.08 is a cliff
\* every cell within this squared distance of a body's centre is inside the
\* body whatever its radius (8 .. 23) and edge noise (-2 .. 2): 6 + 2 <= 8
BodyCoreSq == 36

Abs(a) == IF a < 0 THEN -a ELSE a

\* The smoothed height fields the seeded noise gives on small grids
\* (row-major, first element is cell 0); the noise has no random input, so a
\* grid size has one height field.
HeightFields == {
    [cols |-> 0, rows |-> 0, height |-> << >>],
    [cols |-> 3, rows |-> 2, height |-> <<419, 347, 361,  419, 347, 361>>],
    [cols |-> 4, rows |-> 1, height |-> <<290, 242, 453, 487>>],
    [cols |-> 7, rows |-> 1, height |-> <<290, 242, 453, 564, 766, 625, 578>>] }

\* The height fields of the grids of one and two cells, explored without a
\* bound on the number of steps.
SmallFields == {
    [cols |-> 1, rows |-> 1, height |-> <<197>>],
    [cols |-> 1, rows |-> 2, height |-> <<321, 321>>],
    [cols |-> 2, rows |-> 1, height |-> <<290, 290>>] }

\* cells a water body with the given centre floods
FloodedCells(h, c, r, centre) ==
    {i \in 0..(c * r - 1) :
        /\ ((i % c) - (centre % c)) * ((i % c) - (centre % c))
             + ((i \div c) - (centre \div c)) * ((i \div c) - (centre \div c))
               <= BodyCoreSq
        /\ h[i + 1] < WaterFloodBelow}

\* the water masks the bodies can leave: none (no body, or no centre found
\* in 100 attempts), or the cells flooded from the centres found
WaterMasks(h, c, r) ==
    LET centres == {i \in 0..(c * r - 1) : h[i + 1] <= WaterCentreMax}
    IN  {UNION {FloodedCells(h, c, r, ce) : ce \in cs} : cs \in SUBSET centres}

\* the expansion pass: the mask plus the cells of the 3x3 blocks around it
\* with height < 0.48
ExpandWater(h, c, r, mask) ==
    mask \cup
    {n \in 0..(c * r - 1) :
        /\ h[n + 1] < WaterExpandBelow
        /\ \E i \in mask :
              /\ (n % c) - (i % c) \in {-1, 0, 1}
              /\ (n \div c) - (i \div c) \in {-1, 0, 1}}

\* the first classification pass for a cell outside the water
HeightBand(hv) ==
    IF hv < LowGroundBelow THEN 0
    ELSE IF hv < MidGroundBelow THEN 1
    ELSE 2

\* the largest absolute height difference to the 4-directional neighbours
MaxDiff(h, c, r, i) ==
    LET x == i % c
        y == i \div c
        ns == (IF x > 0 THEN {i - 1} ELSE {})
                \cup (IF x < c - 1 THEN {i + 1} ELSE {})
                \cup (IF y > 0 THEN {i - c} ELSE {})
                \cup (IF y < r - 1 THEN {i + c} ELSE {})
        ds == {Abs(h[i + 1] - h[n + 1]) : n \in ns} \cup {0}
    IN  CHOOSE d \in ds : \A e \in ds : d >= e

\* the type the first pass assigns: water by the expanded mask, else the band
FirstPassType(hv, inWater) == IF inWater THEN 4 ELSE HeightBand(hv)

\* faulty variant: the cliff pass does not skip water
CliffPassOverWater(h, c, r, i, t) ==
    IF MaxDiff(h, c, r, i) > CliffDiff THEN 3 ELSE t

\* the cliff pass for cell i whose first-pass type is t
CliffPassType(h, c, r, i, t) ==
    IF t = 4 THEN t
    ELSE IF MaxDiff(h, c, r, i) > CliffDiff THEN 3
    ELSE t

\* the final type of cell i: both classification passes
ClassifyCell(h, c, r, water, i) ==
    CliffPassType(h, c, r, i, FirstPassType(h[i + 1], i \in water))

\* terrainType as a row-major sequence
Classify(h, c, r, water) ==
    [j \in 1..(c * r) |-> ClassifyCell(h, c, r, water, j - 1)]

\* Terrains initGrid can generate.  0 low ground, 1 mid ground, 2 high
\* plateau, 3 cliff wall, 4 water.
TerrainsOf(fields) ==
    {[cols |-> f.cols, rows |-> f.rows, height |-> f.height,
      type |-> Classify(f.height, f.cols, f.rows,
                        ExpandWater(f.height, f.cols, f.rows, m))] :
        <<f, m>> \in {q \in fields \X SUBSET (0..6) :
                        q[2] \in WaterMasks(q[1].height, q[1].cols, q[1].rows)}}

Terrains == TerrainsOf(HeightFields)

\* Deposit positions the two rejection-sampling loops can end with on a
\* grid of the given width (slots whose 100 attempts all failed are skipped,
\* so short lists are possible).
Layouts == <<
    [cols |-> 1, minerals |-> << >>, vespene |-> << >>],
    [cols |-> 1, minerals |-> << <<0, 1>> >>, vespene |-> << <<0, 1>> >>],
    [cols |-> 2, minerals |-> << >>, vespene |-> << >>],
    [cols |-> 2, minerals |-> << <<1, 0>>, <<1, 0>> >>, vespene |-> << <<1, 0>> >>],
    [cols |-> 2, minerals |-> << <<0, 0>> >>, vespene |-> << <<0, 0>> >>],
    [cols |-> 3, minerals |-> << >>, vespene |-> << >>],
    [cols |-> 3, minerals |-> << <<1, 0>>, <<1, 1>> >>, vespene |-> << <<1, 1>> >>],
    [cols |-> 3, minerals |-> << <<0, 1>>, <<1, 1>> >>,
                 vespene |-> << <<2, 0>>, <<1, 1>> >>],
    [cols |-> 4, minerals |-> << >>, vespene |-> << >>],
    [cols |-> 4, minerals |-> << <<3, 0>>, <<3, 0>> >>, vespene |-> << <<3, 0>> >>],
    [cols |-> 4, minerals |-> << <<0, 0>>, <<0, 0>> >>, vespene |-> << <<0, 0>> >>],
    [cols |-> 7, minerals |-> << >>, vespene |-> << >>],
    [cols |-> 7, minerals |-> << <<6, 0>> >>, vespene |-> << >>],
    [cols |-> 7, minerals |-> << <<6, 0>>, <<6, 0>> >>, vespene |-> << <<6, 0>> >>],
    [cols |-> 7, minerals |-> << <<0, 0>> >>, vespene |-> << <<0, 0>> >>],
    [cols |-> 0, minerals |-> [i \in 1..15 |-> <<0, 0>>],
                 vespene |-> [i \in 1..8 |-> <<0, 0>>]] >>

\* the four start corners (switch at lines 245-250)
CornerOf(corner, c, r) ==
    CASE corner = 0 -> [x |-> 0,     y |-> 0,     dirX |-> 1,  dirY |-> 1]
      [] corner = 1 -> [x |-> c - 1, y |-> 0,     dirX |-> -1, dirY |-> 1]
      [] corner = 2 -> [x |-> 0,     y |-> r - 1, dirX |-> 1,  dirY |-> -1]
      [] corner = 3 -> [x |-> c - 1, y |-> r - 1, dirX |-> -1, dirY |-> -1]

\* terrainType as the Uint8Array: a read outside the array is undefined,
\* and undefined <= 2 is false
TypeAt(type, c, r, idx) ==
    IF idx >= 0 /\ idx < c * r THEN type[idx + 1] ELSE 99

\* seed search in the margin rectangle of the start corner; the corner
\* itself when no cell of the rectangle is walkable
FindSeed(type, c, r, sc) ==
    LET margin == (c * 1) \div 10
        rx == IF sc.dirX = 1 THEN <<0, margin>> ELSE <<c - margin, c>>
        ry == IF sc.dirY = 1 THEN <<0, margin>> ELSE <<r - margin, r>>
        ok == {p \in (rx[1] .. rx[2] - 1) \X (ry[1] .. ry[2] - 1) :
                  TypeAt(type, c, r, p[2] * c + p[1]) <= 2}
    IN  IF ok = {} THEN <<sc.x, sc.y>>
        ELSE CHOOSE p \in ok : \A q \in ok :
                 p[2] < q[2] \/ (p[2] = q[2] /\ p[1] <= q[1])

\* Math.floor(Math.random() * n)
SampleRange(n) == IF n <= 0 THEN {0} ELSE 0..(n - 1)

\* exit test of the do-while placement loops: the sampled cell is kept.
\* Outside the arrays both reads are undefined: undefined > 2 is false and
\* undefined is falsy, so such a sample is kept.
PlacementAccepts(type, c, r, seedIdx, cx, cy) ==
    LET idx == cy * c + cx
        inArray == idx >= 0 /\ idx < c * r
    IN  ~((inArray /\ type[idx + 1] > 2) \/ (inArray /\ idx = seedIdx))

\* numMinerals and numVespene
NumMinerals(c, r) == IF (c * r * 6) \div 10000 > 15 THEN (c * r * 6) \div 10000 ELSE 15
NumVespene(c, r) == IF (c * r * 3) \div 10000 > 8 THEN (c * r * 3) \div 10000 ELSE 8

DepositsOf(positions) ==
    [i \in 1..Len(positions) |->
        [x |-> positions[i][1], y |-> positions[i][2], depleted |-> FALSE]]

\* the simulation state initGrid leaves behind; writes of the seed outside
\* the typed arrays are ignored
InitGridState(t, corner, lay) ==
    LET c == t.cols
        r == t.rows
        size == c * r
        sc == CornerOf(corner, c, r)
        seed == FindSeed(t.type, c, r, sc)
        seedIdx == seed[2] * c + seed[1]
    IN  [cols |-> c, rows |-> r,
         terrainType |-> [i \in 0..(size - 1) |-> t.type[i + 1]],
         terrainHeight |-> [i \in 0..(size - 1) |-> t.height[i + 1]],
         startCorner |-> sc,
         totalVisibleCells |-> size,
         isSaturated |-> InitialSaturated,
         resourceBoost |-> BoostInit,
         mineralsGathered |-> 0,
         vespeneGathered |-> 0,
         buildings |-> << [x |-> seed[1], y |-> seed[2], type |-> "hatchery"] >>,
         creepGrid |-> [i \in 0..(size - 1) |-> IF i = seedIdx THEN 1 ELSE 0],
         creepAge |-> [i \in 0..(size - 1) |-> IF i = seedIdx THEN SeedAge ELSE 0],
         activeEdges |-> << seedIdx >>,
         creepCount |-> 1,
         minerals |-> DepositsOf(lay.minerals),
         vespene |-> DepositsOf(lay.vespene)]

\* the worlds initGrid can generate within the model's terrains and layouts:
\* every recorded deposit is a sample the loop keeps, and a slot is skipped
\* only in a world that has a sample the loop rejects
ChoicesOn(terrains) ==
    {InitGridState(t, corner, Layouts[li]) :
        <<t, corner, li>> \in
          {q \in terrains \X (0..3) \X (1..Len(Layouts)) :
             LET c == q[1].cols
                 r == q[1].rows
                 seed == FindSeed(q[1].type, c, r, CornerOf(q[2], c, r))
                 seedIdx == seed[2] * c + seed[1]
                 lay == Layouts[q[3]]
                 all == lay.minerals \o lay.vespene
                 full == /\ Len(lay.minerals) = NumMinerals(c, r)
                         /\ Len(lay.vespene) = NumVespene(c, r)
                 rejects == \E cx \in SampleRange(c), cy \in SampleRange(r) :
                               ~PlacementAccepts(q[1].type, c, r, seedIdx, cx, cy)
             IN  /\ lay.cols = c
                 /\ \A i \in 1..Len(all) :
                       /\ all[i][1] \in SampleRange(c)
                       /\ all[i][2] \in SampleRange(r)
                       /\ PlacementAccepts(q[1].type, c, r, seedIdx,
                                           all[i][1], all[i][2])
                 /\ (full \/ rejects)}}

InitGridChoices == ChoicesOn(Terrains)

-----------------------------------------------------------------------------
(* StructureSpawner: maybeSpawnHatcheryNear *)

\* A "sim" record st carries the globals that checkResource and
\* maybeSpawnHatcheryNear read and write: creepGrid, creepAge, activeEdges,
\* creepCount, minerals, vespene, resourceBoost, mineralsGathered,
\* vespeneGathered, buildings, terrainType, terrainHeight (and the history
\* counters minFound, vesFound, hatcheriesSpawned).

\* faulty variant: the gate tests the mineral cost only
SpawnGateMineralsOnly(st) ==
    ~(st.mineralsGathered < HATCHERY_MINERAL_COST)

\* the resource gate (a failed gate returns at once)
SpawnGate(st) ==
    ~(st.mineralsGathered < HATCHERY_MINERAL_COST
        \/ st.vespeneGathered < HATCHERY_VESPENE_COST)

\* occupied walkable cells of the radius-4 square around the deposit
Candidates(st, tileX, tileY) ==
    {p \in ((tileX - SpawnRadius) .. (tileX + SpawnRadius))
             \X ((tileY - SpawnRadius) .. (tileY + SpawnRadius)) :
        /\ InBounds(p[1], p[2])
        /\ st.terrainType[p[2] * cols + p[1]] <= 2
        /\ st.creepGrid[p[2] * cols + p[1]] # 0}

\* faulty variant: a cell the spawn occupies is not added to activeEdges
SpawnCellNoEdge(st, x, y) ==
    IF ~InBounds(x, y) THEN st
    ELSE LET idx == y * cols + x IN
         IF st.terrainType[idx] <= 2
         THEN IF st.creepGrid[idx] = 0
              THEN [st EXCEPT !.creepGrid[idx] = 1,
                              !.creepAge[idx] = SpawnAge,
                              !.creepCount = @ + 1]
              ELSE [st EXCEPT !.creepAge[idx] = Max(@, SpawnAge)]
         ELSE st

\* faulty variant: the spawn flips occupancy instead of testing it
SpawnCellFlips(st, x, y) ==
    IF ~InBounds(x, y) THEN st
    ELSE LET idx == y * cols + x IN
         IF st.terrainType[idx] <= 2
         THEN IF st.creepGrid[idx] = 0
              THEN [st EXCEPT !.creepGrid[idx] = 1,
                              !.creepAge[idx] = SpawnAge,
                              !.activeEdges = SetAdd(@, idx),
                              !.creepCount = @ + 1]
              ELSE [st EXCEPT !.creepGrid[idx] = 0,
                              !.creepAge[idx] = Max(@, SpawnAge)]
         ELSE st

\* faulty variant: a cell the spawn occupies is turned into low ground
SpawnCellLevelsGround(st, x, y) ==
    IF ~InBounds(x, y) THEN st
    ELSE LET idx == y * cols + x IN
         IF st.terrainType[idx] <= 2
         THEN IF st.creepGrid[idx] = 0
              THEN [st EXCEPT !.creepGrid[idx] = 1,
                              !.creepAge[idx] = SpawnAge,
                              !.activeEdges = SetAdd(@, idx),
                              !.creepCount = @ + 1,
                              !.terrainType[idx] = 0,
                              !.terrainHeight[idx] = 0]
              ELSE [st EXCEPT !.creepAge[idx] = Max(@, SpawnAge)]
         ELSE st

\* faulty variant: the spawn also occupies cliff and water cells
SpawnCellOverCliffs(st, x, y) ==
    IF ~InBounds(x, y) THEN st
    ELSE LET idx == y * cols + x IN
         IF st.creepGrid[idx] = 0
         THEN [st EXCEPT !.creepGrid[idx] = 1,
                         !.creepAge[idx] = SpawnAge,
                         !.activeEdges = SetAdd(@, idx),
                         !.creepCount = @ + 1]
         ELSE [st EXCEPT !.creepAge[idx] = Max(@, SpawnAge)]

\* body of the 3x3 loop for one cell (x, y) around the chosen candidate
SpawnCell(st, x, y) ==
    IF ~InBounds(x, y) THEN st
    ELSE LET idx == y * cols + x IN
         IF st.terrainType[idx] <= 2
         THEN IF st.creepGrid[idx] = 0
              THEN [st EXCEPT !.creepGrid[idx] = 1,
                              !.creepAge[idx] = SpawnAge,
                              !.activeEdges = SetAdd(@, idx),
                              !.creepCount = @ + 1]
              ELSE [st EXCEPT !.creepAge[idx] = Max(@, SpawnAge)]
         ELSE st

\* the 3x3 loop, dy outer and dx inner; n counts the cells already handled
RECURSIVE SpawnFill(_, _, _, _)
SpawnFill(st, cx, cy, n) ==
    IF n >= 9 THEN st
    ELSE SpawnFill(SpawnCell(st, cx + ((n % 3) - 1), cy + ((n \div 3) - 1)),
                   cx, cy, n + 1)

\* faulty variant: the costs are paid before the candidates are looked for
maybeSpawnHatcheryNearPaysFirst(st, tileX, tileY, coin, chosen) ==
    IF ~SpawnGate(st) THEN st
    ELSE IF ~coin THEN st
    ELSE IF Candidates(st, tileX, tileY) = {}
    THEN [st EXCEPT !.mineralsGathered = @ - HATCHERY_MINERAL_COST,
                    !.vespeneGathered = @ - HATCHERY_VESPENE_COST]
    ELSE LET placed == [st EXCEPT !.buildings =
                            Append(@, [x |-> chosen[1], y |-> chosen[2],
                                       type |-> "hatchery"])]
             filled == SpawnFill(placed, chosen[1], chosen[2], 0)
         IN  [filled EXCEPT !.mineralsGathered = @ - HATCHERY_MINERAL_COST,
                            !.vespeneGathered = @ - HATCHERY_VESPENE_COST,
                            !.hatcheriesSpawned = @ + 1]

\* faulty variant: a spawn deducts the mineral cost only
maybeSpawnHatcheryNearKeepsVespene(st, tileX, tileY, coin, chosen) ==
    IF ~SpawnGate(st) THEN st
    ELSE IF ~coin THEN st
    ELSE IF Candidates(st, tileX, tileY) = {} THEN st
    ELSE LET placed == [st EXCEPT !.buildings =
                            Append(@, [x |-> chosen[1], y |-> chosen[2],
                                       type |-> "hatchery"])]
             filled == SpawnFill(placed, chosen[1], chosen[2], 0)
         IN  [filled EXCEPT !.mineralsGathered = @ - HATCHERY_MINERAL_COST,
                            !.hatcheriesSpawned = @ + 1]

\* coin: Math.random() > HATCHERY_SPAWN_CHANCE did not hold;
\* chosen: the candidate the second Math.random() selects
maybeSpawnHatcheryNear(st, tileX, tileY, coin, chosen) ==
    IF ~SpawnGate(st) THEN st
    ELSE IF ~coin THEN st
    ELSE IF Candidates(st, tileX, tileY) = {} THEN st
    ELSE LET placed == [st EXCEPT !.buildings =
                            Append(@, [x |-> chosen[1], y |-> chosen[2],
                                       type |-> "hatchery"])]
             filled == SpawnFill(placed, chosen[1], chosen[2], 0)
         IN  [filled EXCEPT !.mineralsGathered = @ - HATCHERY_MINERAL_COST,
                            !.vespeneGathered = @ - HATCHERY_VESPENE_COST,
                            !.hatcheriesSpawned = @ + 1]

\* every result the two random draws allow
SpawnOutcomes(st, tileX, tileY) ==
    LET cands == Candidates(st, tileX, tileY)
        picks == IF cands = {} THEN {<<-1, -1>>} ELSE cands
    IN  {maybeSpawnHatcheryNear(st, tileX, tileY, coin, ch) :
            coin \in BOOLEAN, ch \in picks}

-----------------------------------------------------------------------------
(* Resource discovery: checkResource *)

\* faulty variant: the depleted flag is not tested
DiscoverableAgain(dep, x, y, radiusSq) ==
    (x - dep.x) * (x - dep.x) + (y - dep.y) * (y - dep.y) < radiusSq

\* faulty variant: the radius test is inclusive
DiscoverableInclusive(dep, x, y, radiusSq) ==
    /\ ~dep.depleted
    /\ (x - dep.x) * (x - dep.x) + (y - dep.y) * (y - dep.y) <= radiusSq

\* the test guarding a deposit's discovery branch
Discoverable(dep, x, y, radiusSq) ==
    /\ ~dep.depleted
    /\ (x - dep.x) * (x - dep.x) + (y - dep.y) * (y - dep.y) < radiusSq

\* index of the first deposit of the list whose branch is taken, 0 if none
FirstHit(deps, x, y, radiusSq) ==
    LET hits == {i \in 1..Len(deps) : Discoverable(deps[i], x, y, radiusSq)}
    IN  IF hits = {} THEN 0 ELSE CHOOSE i \in hits : \A j \in hits : i <= j

DiscoverMineral(st, i) ==
    [st EXCEPT !.minerals[i].depleted = TRUE,
               !.resourceBoost = Min(BoostMax, @ + BoostMineral),
               !.mineralsGathered = @ + 1,
               !.buildings = Append(@, [x |-> st.minerals[i].x,
                                        y |-> st.minerals[i].y,
                                        type |-> "mineralpatch"]),
               !.minFound[i] = @ + 1]

\* faulty variant: the vespene increment is not clamped
DiscoverVespeneUnclamped(st, i) ==
    [st EXCEPT !.vespene[i].depleted = TRUE,
               !.resourceBoost = @ + BoostVespene,
               !.vespeneGathered = @ + 1,
               !.buildings = Append(@, [x |-> st.vespene[i].x,
                                        y |-> st.vespene[i].y,
                                        type |-> "extractor"]),
               !.vesFound[i] = @ + 1]

DiscoverVespene(st, i) ==
    [st EXCEPT !.vespene[i].depleted = TRUE,
               !.resourceBoost = Min(BoostMax, @ + BoostVespene),
               !.vespeneGathered = @ + 1,
               !.buildings = Append(@, [x |-> st.vespene[i].x,
                                        y |-> st.vespene[i].y,
                                        type |-> "extractor"]),
               !.vesFound[i] = @ + 1]

\* checkResource(idx, x, y): the set of (state, returned boost) results;
\* boost 1 stands for the null return (resMod = 1)
checkResource(st, x, y) ==
    LET m == FirstHit(st.minerals, x, y, mineralRadiusSq)
        v == FirstHit(st.vespene, x, y, vespeneRadiusSq)
    IN  IF m # 0
        THEN {[st |-> o, boost |-> 2] :
                o \in SpawnOutcomes(DiscoverMineral(st, m),
                                    st.minerals[m].x, st.minerals[m].y)}
        ELSE IF v # 0
        THEN {[st |-> o, boost |-> 3] :
                o \in SpawnOutcomes(DiscoverVespene(st, v),
                                    st.vespene[v].x, st.vespene[v].y)}
        ELSE {[st |-> st, boost |-> 1]}

-----------------------------------------------------------------------------
(* The state machine *)

Sim ==
    [creepGrid |-> creepGrid, creepAge |-> creepAge, activeEdges |-> activeEdges,
     creepCount |-> creepCount, minerals |-> minerals, vespene |-> vespene,
     resourceBoost |-> resourceBoost, mineralsGathered |-> mineralsGathered,
     vespeneGathered |-> vespeneGathered, buildings |-> buildings,
     terrainType |-> terrainType, terrainHeight |-> terrainHeight,
     minFound |-> minFound, vesFound |-> vesFound,
     hatcheriesSpawned |-> hatcheriesSpawned]

\* the ripple initGrid pushes (lines 306-314): radius 0, maxRadius 150,
\* speed 0.3; the position and the strength are presentation only
InitialRipple == [radius |-> 0, maxRadius |-> 1500, speed |-> 3]

\* the frame loop is between two frames
NoFrame ==
    /\ sinceSpread = 0
    /\ sinceRipple = 0
    /\ framePc = "wait"
    /\ inGrowing = FALSE

\* history: the world about to be replaced is saturated, has a discovery
\* behind it and holds more creep than its seed
UsedWorld ==
    /\ isSaturated
    /\ resourceBoost > BoostInit
    /\ creepCount > 1

\* no spreadCreep is running: its locals do not exist
NoLocals ==
    /\ pc = "idle"
    /\ newEdges = <<>>
    /\ toRemove = <<>>
    /\ currentBoost = 0
    /\ pos = 0
    /\ k = 0
    /\ hasEmptyNeighbor = FALSE
    /\ resMod = 0
    /\ startFrontier = {}
    /\ boostAtEntry = 0
    /\ scanned = {}

\* the placement loops and the classification passes are not running:
\* their locals do not exist
NoPlacement ==
    /\ classPc = "done"
    /\ expandedWater = {}
    /\ placePc = "done"
    /\ placeKind = "none"
    /\ slot = 0
    /\ sampleX = 0
    /\ sampleY = 0
    /\ attempts = 0

\* page load: renderer.js runs initGrid() once before the first frame
Init ==
    \E w \in InitGridChoices :
        /\ cols = w.cols
        /\ rows = w.rows
        /\ terrainType = w.terrainType
        /\ terrainHeight = w.terrainHeight
        /\ startCorner = w.startCorner
        /\ totalVisibleCells = w.totalVisibleCells
        /\ isSaturated = w.isSaturated
        /\ creepCount = w.creepCount
        /\ resourceBoost = w.resourceBoost
        /\ mineralsGathered = w.mineralsGathered
        /\ vespeneGathered = w.vespeneGathered
        /\ creepGrid = w.creepGrid
        /\ creepAge = w.creepAge
        /\ minerals = w.minerals
        /\ vespene = w.vespene
        /\ buildings = w.buildings
        /\ activeEdges = w.activeEdges
        /\ NoFrame
        /\ ripples = << InitialRipple >>
        /\ spentBefore = FALSE
        /\ NoLocals
        /\ NoPlacement
        /\ lastOp = "initGrid"
        /\ steps = 0
        /\ minFound = [i \in 1..Len(w.minerals) |-> 0]
        /\ vesFound = [i \in 1..Len(w.vespene) |-> 0]
        /\ hatcheriesSpawned = 0

\* initGrid(): full regeneration, from animate (saturated, ripples gone) or
\* from the resize listener; both run between frames, never inside a step
initGridOn(choices) ==
    /\ \E w \in choices :
        /\ cols' = w.cols
        /\ rows' = w.rows
        /\ terrainType' = w.terrainType
        /\ terrainHeight' = w.terrainHeight
        /\ startCorner' = w.startCorner
        /\ totalVisibleCells' = w.totalVisibleCells
        /\ isSaturated' = w.isSaturated
        /\ creepCount' = w.creepCount
        /\ resourceBoost' = w.resourceBoost
        /\ mineralsGathered' = w.mineralsGathered
        /\ vespeneGathered' = w.vespeneGathered
        /\ creepGrid' = w.creepGrid
        /\ creepAge' = w.creepAge
        /\ minerals' = w.minerals
        /\ vespene' = w.vespene
        /\ buildings' = w.buildings
        /\ activeEdges' = w.activeEdges
        /\ minFound' = [i \in 1..Len(w.minerals) |-> 0]
        /\ vesFound' = [i \in 1..Len(w.vespene) |-> 0]
    /\ ripples' = << InitialRipple >>
    /\ lastOp' = "initGrid"
    /\ steps' = 0
    /\ hatcheriesSpawned' = 0
    /\ spentBefore' = UsedWorld
    /\ UNCHANGED localVars
    /\ UNCHANGED <<startFrontier, boostAtEntry, scanned>>
    /\ UNCHANGED <<placeVars, classVars>>

initGrid == pc = "idle" /\ initGridOn(InitGridChoices) /\ UNCHANGED frameVars

\* faulty variant: spreadCreep has no early return
SaturatedReturnNever == FALSE

\* the early return of spreadCreep
SaturatedReturn == isSaturated

\* spreadCreep() called on a saturated engine
spreadCreepSaturated ==
    /\ pc = "idle"
    /\ SaturatedReturn
    /\ lastOp' = "spreadCreepNoop"
    /\ UNCHANGED <<worldVars, terrainVars, simVars, isSaturated, localVars>>
    /\ UNCHANGED <<steps, startFrontier, boostAtEntry, scanned, minFound, vesFound, hatcheriesSpawned>>
    /\ UNCHANGED <<placeVars, classVars, driverVars>>

\* spreadCreep() entry: the locals are set up and the for-of loop starts;
\* n is the new value of the history counter steps
spreadCreepEntry(n) ==
    /\ pc = "idle"
    /\ ~SaturatedReturn
    /\ pc' = "scan"
    /\ newEdges' = <<>>
    /\ toRemove' = <<>>
    /\ currentBoost' = resourceBoost
    /\ pos' = 1
    /\ k' = 1
    /\ hasEmptyNeighbor' = FALSE
    /\ resMod' = 0
    /\ steps' = n
    /\ startFrontier' = SeqToSet(activeEdges)
    /\ boostAtEntry' = resourceBoost
    /\ scanned' = {}
    /\ lastOp' = "spreadCreep"
    /\ UNCHANGED <<worldVars, terrainVars, simVars, isSaturated, minFound, vesFound,
                   hatcheriesSpawned, placeVars, classVars>>

\* a step of the bounded exploration: at most MaxSteps steps per cycle
spreadCreepBegin ==
    steps < MaxSteps /\ spreadCreepEntry(steps + 1) /\ UNCHANGED driverVars

\* faulty variant: the roll reads the global resourceBoost
RollBoostLive == resourceBoost

\* the boost factor of spreadChance (line 472): the local currentBoost
RollBoost == currentBoost

\* spreadChance > 0; heightMod = 1 - height * 0.5 is (2000 - height) / 2000,
\* dirMod and noiseMod are at least 1
SpreadChancePositive(nidx) ==
    terrainSpreadMods[terrainType[nidx] + 1] * RollBoost * resMod
        * (2000 - terrainHeight[nidx]) > 0

\* the state after a successful growth roll on nidx
Grow(st, nidx) ==
    [st EXCEPT !.creepGrid[nidx] = 1,
               !.creepAge[nidx] = GrowAge,
               !.creepCount = @ + 1]

\* idx % cols and Math.floor(idx / cols) on a grid without columns are NaN
\* or -Infinity: the neighbour then passes or fails the bounds test, and a
\* neighbour that passes it reads creepGrid[NaN], which is undefined and
\* not === 0; either way it is not evaluated
NotANumber(idx) == cols = 0

\* neighbour loop, up to the checkResource call: the bounds test, the
\* occupancy test, hasEmptyNeighbor and the discovery with its side effects
evalNeighbor ==
    /\ pc = "scan"
    /\ pos <= Len(activeEdges)
    /\ k <= 8
    /\ LET idx == activeEdges[pos]
           nx == (idx % cols) + neighbors[k][1]
           ny == (idx \div cols) + neighbors[k][2]
           nidx == ny * cols + nx
       IN  IF NotANumber(idx) \/ ~InBounds(nx, ny) \/ creepGrid[nidx] # 0
           THEN /\ k' = k + 1
                /\ UNCHANGED <<simVars, terrainVars, minFound, vesFound,
                               hatcheriesSpawned, hasEmptyNeighbor, pc, resMod>>
           ELSE /\ hasEmptyNeighbor' = TRUE
                /\ pc' = "roll"
                /\ k' = k
                /\ \E res \in checkResource(Sim, nx, ny) :
                       /\ creepGrid' = res.st.creepGrid
                       /\ creepAge' = res.st.creepAge
                       /\ activeEdges' = res.st.activeEdges
                       /\ creepCount' = res.st.creepCount
                       /\ minerals' = res.st.minerals
                       /\ vespene' = res.st.vespene
                       /\ resourceBoost' = res.st.resourceBoost
                       /\ mineralsGathered' = res.st.mineralsGathered
                       /\ vespeneGathered' = res.st.vespeneGathered
                       /\ buildings' = res.st.buildings
                       /\ terrainType' = res.st.terrainType
                       /\ terrainHeight' = res.st.terrainHeight
                       /\ minFound' = res.st.minFound
                       /\ vesFound' = res.st.vesFound
                       /\ hatcheriesSpawned' = res.st.hatcheriesSpawned
                       /\ resMod' = res.boost
    /\ UNCHANGED <<worldVars, isSaturated, newEdges, toRemove, currentBoost, pos>>
    /\ UNCHANGED <<lastOp, steps, startFrontier, boostAtEntry, scanned, placeVars, classVars, driverVars>>

\* neighbour loop, from the spreadChance computation on: the growth roll
growthRoll ==
    /\ pc = "roll"
    /\ LET idx == activeEdges[pos]
           nx == (idx % cols) + neighbors[k][1]
           ny == (idx \div cols) + neighbors[k][2]
           nidx == ny * cols + nx
       IN  \E roll \in (IF SpreadChancePositive(nidx) THEN BOOLEAN ELSE {FALSE}) :
             IF roll
             THEN /\ creepGrid' = Grow(Sim, nidx).creepGrid
                  /\ creepAge' = Grow(Sim, nidx).creepAge
                  /\ creepCount' = Grow(Sim, nidx).creepCount
                  /\ newEdges' = SetAdd(newEdges, nidx)
             ELSE UNCHANGED <<creepGrid, creepAge, creepCount, newEdges>>
    /\ pc' = "scan"
    /\ k' = k + 1
    /\ resMod' = 0
    /\ UNCHANGED <<worldVars, terrainVars, isSaturated, toRemove, currentBoost, pos,
                   hasEmptyNeighbor>>
    /\ UNCHANGED <<minerals, vespene, buildings, activeEdges, resourceBoost,
                   mineralsGathered, vespeneGathered>>
    /\ UNCHANGED <<lastOp, steps, startFrontier, boostAtEntry, scanned, minFound, vesFound,
                   hatcheriesSpawned, placeVars, classVars, driverVars>>

\* end of the loop body: ageing and the removal list
finishCell ==
    /\ pc = "scan"
    /\ pos <= Len(activeEdges)
    /\ k = 9
    /\ LET idx == activeEdges[pos] IN
        /\ creepAge' = IF idx \in DOMAIN creepAge
                       THEN [creepAge EXCEPT ![idx] = Min(MaxAge, @ + 1)]
                       ELSE creepAge
        /\ toRemove' = IF ~hasEmptyNeighbor THEN Append(toRemove, idx) ELSE toRemove
        /\ scanned' = scanned \cup {idx}
    /\ pos' = pos + 1
    /\ k' = 1
    /\ hasEmptyNeighbor' = FALSE
    /\ UNCHANGED <<worldVars, terrainVars, isSaturated, pc, newEdges, currentBoost,
                   resMod>>
    /\ UNCHANGED <<creepGrid, minerals, vespene, buildings, activeEdges,
                   creepCount, resourceBoost, mineralsGathered, vespeneGathered>>
    /\ UNCHANGED <<lastOp, steps, startFrontier, boostAtEntry, minFound, vesFound, hatcheriesSpawned,
                   placeVars, classVars, driverVars>>

\* the saturation test at the end of spreadCreep
ReachedSaturation == creepCount * 100 >= totalVisibleCells * 98

\* faulty variant: the removal list is not applied
ApplyEdgeChangesNoDelete(edges, rem, add) == SetAddAll(edges, add)

\* the two loops after the scan: deletions, then insertions
ApplyEdgeChanges(edges, rem, add) == SetAddAll(SetDeleteAll(edges, rem), add)

\* the iterator is exhausted: removals, insertions, saturation test, return
finishStep ==
    /\ pc = "scan"
    /\ pos > Len(activeEdges)
    /\ activeEdges' = ApplyEdgeChanges(activeEdges, toRemove, newEdges)
    /\ isSaturated' = IF ReachedSaturation THEN TRUE ELSE isSaturated
    /\ pc' = "idle"
    /\ newEdges' = <<>>
    /\ toRemove' = <<>>
    /\ currentBoost' = 0
    /\ pos' = 0
    /\ k' = 0
    /\ hasEmptyNeighbor' = FALSE
    /\ resMod' = 0
    /\ startFrontier' = {}
    /\ boostAtEntry' = 0
    /\ scanned' = {}
    /\ UNCHANGED <<worldVars, terrainVars>>
    /\ UNCHANGED <<creepGrid, creepAge, minerals, vespene, buildings,
                   creepCount, resourceBoost, mineralsGathered, vespeneGathered>>
    /\ UNCHANGED <<lastOp, steps, minFound, vesFound, hatcheriesSpawned, placeVars,
                   classVars, driverVars>>

Next ==
    \/ initGrid
    \/ spreadCreepSaturated
    \/ spreadCreepBegin
    \/ evalNeighbor
    \/ growthRoll
    \/ finishCell
    \/ finishStep

Spec == Init /\ [][Next]_vars

-----------------------------------------------------------------------------
(* The growth phase of one cycle, repeated without a bound on the steps *)

SmallChoices == ChoicesOn(TerrainsOf(SmallFields))

GrowthInit ==
    \E w \in SmallChoices :
        /\ cols = w.cols
        /\ rows = w.rows
        /\ terrainType = w.terrainType
        /\ terrainHeight = w.terrainHeight
        /\ startCorner = w.startCorner
        /\ totalVisibleCells = w.totalVisibleCells
        /\ isSaturated = w.isSaturated
        /\ creepCount = w.creepCount
        /\ resourceBoost = w.resourceBoost
        /\ mineralsGathered = w.mineralsGathered
        /\ vespeneGathered = w.vespeneGathered
        /\ creepGrid = w.creepGrid
        /\ creepAge = w.creepAge
        /\ minerals = w.minerals
        /\ vespene = w.vespene
        /\ buildings = w.buildings
        /\ activeEdges = w.activeEdges
        /\ NoFrame
        /\ ripples = << InitialRipple >>
        /\ spentBefore = FALSE
        /\ NoLocals
        /\ NoPlacement
        /\ lastOp = "initGrid"
        /\ steps = 0
        /\ minFound = [i \in 1..Len(w.minerals) |-> 0]
        /\ vesFound = [i \in 1..Len(w.vespene) |-> 0]
        /\ hatcheriesSpawned = 0

\* animate calls spreadCreep again and again while the cycle is growing;
\* the history counter stops at MaxSteps
spreadCreepAgain ==
    spreadCreepEntry(Min(steps + 1, MaxSteps)) /\ UNCHANGED driverVars

\* the growth roll succeeds: Math.random() < spreadChance
growthSucceeds == growthRoll /\ creepCount' = creepCount + 1

GrowthNext ==
    \/ spreadCreepSaturated
    \/ spreadCreepAgain
    \/ evalNeighbor
    \/ growthRoll
    \/ finishCell
    \/ finishStep

\* every frame runs to its end, and a roll whose chance is positive and
\* that is made again and again succeeds at some time
GrowthSpec ==
    /\ GrowthInit
    /\ [][GrowthNext]_vars
    /\ WF_vars(GrowthNext)
    /\ SF_vars(growthSucceeds)

-----------------------------------------------------------------------------
(* The frame loop: animate, spawnRipple, updateRipples, the resize listener *)

spreadInterval == 120
rippleInterval == 1500
RippleLimit == 8

\* time between two frames, in ms: an ordinary slow frame and a stall
FrameTimes == {100, 2000}

\* maxRadius = 100 + random * 100 and speed = 0.2 + random * 0.2, in tenths
RippleSamples == { [maxRadius |-> 1000, speed |-> 4],
                   [maxRadius |-> 1999, speed |-> 2] }

\* the grids of the frame loop: no cell, one cell
DriverFields == {
    [cols |-> 0, rows |-> 0, height |-> << >>],
    [cols |-> 1, rows |-> 1, height |-> <<197>>] }

DriverChoices == ChoicesOn(TerrainsOf(DriverFields))

\* faulty variant: a ripple that has reached maxRadius is kept
KeepsRipple(r) == TRUE

\* ripples[i].radius > ripples[i].maxRadius is false
StaysRipple(r) == ~(r.radius > r.maxRadius)

\* updateRipples(): every radius grows by its speed, a ripple beyond its
\* maxRadius is spliced out; the pulse of the buildings is presentation only
updateRipples(rs) ==
    SelectSeq([i \in 1..Len(rs) |-> [rs[i] EXCEPT !.radius = @ + rs[i].speed]],
              StaysRipple)

\* spawnRipple(): the ripple lists it can leave behind
spawnRipple(rs) ==
    IF Len(rs) >= RippleLimit \/ Len(buildings) = 0
    THEN {rs}
    ELSE {Append(rs, [radius |-> 0, maxRadius |-> smp.maxRadius, speed |-> smp.speed]) :
             smp \in RippleSamples}

DriverInit ==
    \E w \in DriverChoices :
        /\ cols = w.cols
        /\ rows = w.rows
        /\ terrainType = w.terrainType
        /\ terrainHeight = w.terrainHeight
        /\ startCorner = w.startCorner
        /\ totalVisibleCells = w.totalVisibleCells
        /\ isSaturated = w.isSaturated
        /\ creepCount = w.creepCount
        /\ resourceBoost = w.resourceBoost
        /\ mineralsGathered = w.mineralsGathered
        /\ vespeneGathered = w.vespeneGathered
        /\ creepGrid = w.creepGrid
        /\ creepAge = w.creepAge
        /\ minerals = w.minerals
        /\ vespene = w.vespene
        /\ buildings = w.buildings
        /\ activeEdges = w.activeEdges
        /\ NoFrame
        /\ ripples = << InitialRipple >>
        /\ spentBefore = FALSE
        /\ NoLocals
        /\ NoPlacement
        /\ lastOp = "initGrid"
        /\ steps = 0
        /\ minFound = [i \in 1..Len(w.minerals) |-> 0]
        /\ vesFound = [i \in 1..Len(w.vespene) |-> 0]
        /\ hatcheriesSpawned = 0

\* animate(time) is entered: the time since the last spread and the last
\* ripple, and the test if (!isSaturated), which is made once per frame
animateBegin ==
    /\ framePc = "wait"
    /\ pc = "idle"
    /\ \E dt \in FrameTimes :
          /\ sinceSpread' = Min(sinceSpread + dt, spreadInterval + 1)
          /\ sinceRipple' = Min(sinceRipple + dt, rippleInterval + 1)
    /\ inGrowing' = ~isSaturated
    /\ framePc' = "spread"
    /\ lastOp' = "animate"
    /\ UNCHANGED <<worldVars, terrainVars, simVars, isSaturated, localVars>>
    /\ UNCHANGED <<steps, startFrontier, boostAtEntry, scanned, minFound, vesFound, hatcheriesSpawned>>
    /\ UNCHANGED <<placeVars, classVars, ripples, spentBefore>>

\* if (time - lastSpread > spreadInterval) { spreadCreep(); lastSpread = time }
animateSpread ==
    /\ framePc = "spread"
    /\ IF inGrowing /\ sinceSpread > spreadInterval
       THEN /\ IF SaturatedReturn
               THEN /\ framePc' = "ripple"
                    /\ lastOp' = "spreadCreepNoop"
                    /\ UNCHANGED <<worldVars, terrainVars, simVars, isSaturated,
                                   localVars>>
                    /\ UNCHANGED <<steps, startFrontier, boostAtEntry, scanned, minFound, vesFound,
                                   hatcheriesSpawned, placeVars, classVars>>
               ELSE /\ framePc' = "spreading"
                    /\ spreadCreepEntry(Min(steps + 1, MaxSteps))
            /\ sinceSpread' = 0
       ELSE /\ framePc' = "ripple"
            /\ UNCHANGED <<worldVars, terrainVars, simVars, isSaturated, localVars,
                           histVars, placeVars, classVars, sinceSpread>>
    /\ UNCHANGED <<ripples, spentBefore, sinceRipple, inGrowing>>

\* if (time - lastRipple > rippleInterval) { spawnRipple(); lastRipple = time },
\* inside the same if (!isSaturated) block, after spreadCreep has returned
animateRipple ==
    /\ framePc \in {"spreading", "ripple"}
    /\ pc = "idle"
    /\ IF inGrowing /\ sinceRipple > rippleInterval
       THEN /\ ripples' \in spawnRipple(ripples)
            /\ sinceRipple' = 0
            /\ lastOp' = "spawnRipple"
       ELSE UNCHANGED <<ripples, sinceRipple, lastOp>>
    /\ framePc' = "update"
    /\ UNCHANGED <<worldVars, terrainVars, simVars, isSaturated, localVars>>
    /\ UNCHANGED <<steps, startFrontier, boostAtEntry, scanned, minFound, vesFound, hatcheriesSpawned>>
    /\ UNCHANGED <<placeVars, classVars, spentBefore, sinceSpread, inGrowing>>

\* updateRipples(); if (isSaturated && ripples.length === 0) initGrid();
\* the frame ends
animateEnd ==
    /\ framePc = "update"
    /\ IF isSaturated /\ updateRipples(ripples) = << >>
       THEN initGridOn(DriverChoices)
       ELSE /\ ripples' = updateRipples(ripples)
            /\ lastOp' = "updateRipples"
            /\ UNCHANGED <<worldVars, terrainVars, simVars, isSaturated, localVars>>
            /\ UNCHANGED <<steps, startFrontier, boostAtEntry, scanned, minFound, vesFound,
                           hatcheriesSpawned>>
            /\ UNCHANGED <<placeVars, classVars, spentBefore>>
    /\ framePc' = "wait"
    /\ UNCHANGED <<sinceSpread, sinceRipple, inGrowing>>

\* the resize listener: resize(); initGrid(), between two frames
resizeListener ==
    /\ framePc = "wait"
    /\ pc = "idle"
    /\ initGridOn(DriverChoices)
    /\ UNCHANGED frameVars

\* the steps of one frame; on a grid of at most one cell no neighbour is
\* inside the grid, so spreadCreep never reaches a growth roll
Frame ==
    \/ animateBegin
    \/ animateSpread
    \/ evalNeighbor
    \/ finishCell
    \/ finishStep
    \/ animateRipple
    \/ animateEnd

DriverNext == Frame \/ resizeListener

\* requestAnimationFrame(animate): a frame that has been requested runs
DriverSpec == DriverInit /\ [][DriverNext]_vars /\ WF_vars(Frame)

-----------------------------------------------------------------------------
(* Resource placement: the two rejection-sampling loops of initGrid *)

\* the loop condition's first conjunct for the sample (x, y); outside the
\* arrays both reads are undefined and the sample is not rejected
SampleRejected(x, y) ==
    LET idx == y * cols + x
        inArray == idx \in DOMAIN terrainType
    IN  (inArray /\ terrainType[idx] > 2) \/ (inArray /\ creepGrid[idx] # 0)

\* while ((...) && attempts < 100)
LoopAgain(x, y, a) == SampleRejected(x, y) /\ a < AttemptLimit

\* if (attempts < 100)
RecordsDeposit(a) == a < AttemptLimit

\* slots of a loop: numMinerals / numVespene, as far as the model explores
SlotsOf(kind) ==
    Min(MaxSlots, IF kind = "minerals" THEN NumMinerals(cols, rows)
                  ELSE NumVespene(cols, rows))

\* initGrid at the start of the mineral loop: terrain classified, seed
\* placed, no deposit recorded yet
PlacementInit ==
    \E w \in {InitGridState(t, corner, Layouts[1]) :
                 t \in Terrains, corner \in 0..3} :
        /\ cols = w.cols
        /\ rows = w.rows
        /\ terrainType = w.terrainType
        /\ terrainHeight = w.terrainHeight
        /\ startCorner = w.startCorner
        /\ totalVisibleCells = w.totalVisibleCells
        /\ isSaturated = w.isSaturated
        /\ creepCount = w.creepCount
        /\ resourceBoost = w.resourceBoost
        /\ mineralsGathered = w.mineralsGathered
        /\ vespeneGathered = w.vespeneGathered
        /\ creepGrid = w.creepGrid
        /\ creepAge = w.creepAge
        /\ minerals = << >>
        /\ vespene = << >>
        /\ buildings = w.buildings
        /\ activeEdges = w.activeEdges
        /\ NoFrame
        /\ ripples = << >>
        /\ spentBefore = FALSE
        /\ NoLocals
        /\ lastOp = "initGrid"
        /\ steps = 0
        /\ minFound = << >>
        /\ vesFound = << >>
        /\ hatcheriesSpawned = 0
        /\ classPc = "done"
        /\ expandedWater = {}
        /\ placePc = "sample"
        /\ placeKind = "minerals"
        /\ slot = 0
        /\ sampleX = 0
        /\ sampleY = 0
        /\ attempts = 0

\* one pass of a do-while body with its loop test
placeSample ==
    /\ placePc = "sample"
    /\ \E x \in SampleRange(cols), y \in SampleRange(rows) :
          /\ sampleX' = x
          /\ sampleY' = y
          /\ attempts' = attempts + 1
          /\ placePc' = IF LoopAgain(x, y, attempts + 1) THEN "sample" ELSE "record"
    /\ UNCHANGED <<placeKind, slot>>
    /\ UNCHANGED <<worldVars, terrainVars, simVars, isSaturated, localVars, histVars,
                   classVars, driverVars>>

\* after the loop: the conditional push, then the next slot or loop
placeRecord ==
    /\ placePc = "record"
    /\ LET dep == [x |-> sampleX, y |-> sampleY, depleted |-> FALSE] IN
        /\ minerals' = IF placeKind = "minerals" /\ RecordsDeposit(attempts)
                       THEN Append(minerals, dep) ELSE minerals
        /\ vespene' = IF placeKind = "vespene" /\ RecordsDeposit(attempts)
                      THEN Append(vespene, dep) ELSE vespene
    /\ attempts' = 0
    /\ IF slot + 1 < SlotsOf(placeKind)
       THEN /\ slot' = slot + 1
            /\ placePc' = "sample"
            /\ UNCHANGED placeKind
       ELSE IF placeKind = "minerals"
       THEN /\ slot' = 0
            /\ placePc' = "sample"
            /\ placeKind' = "vespene"
       ELSE /\ slot' = 0
            /\ placePc' = "done"
            /\ placeKind' = "none"
    /\ UNCHANGED <<sampleX, sampleY>>
    /\ UNCHANGED <<worldVars, terrainVars, isSaturated, localVars, histVars, classVars, driverVars>>
    /\ UNCHANGED <<creepGrid, creepAge, buildings, activeEdges, creepCount,
                   resourceBoost, mineralsGathered, vespeneGathered>>

PlacementNext ==
    \/ placeSample
    \/ placeRecord

PlacementSpec == PlacementInit /\ [][PlacementNext]_vars

-----------------------------------------------------------------------------
(* Terrain classification: the two passes of initGrid over a height field *)

\* heights the synthetic fields are built from (thousandths): either side
\* of each band threshold, pairs 79 and 81 apart, and the extremes 0.0, 1.0
Levels == {0, 319, 321, 400, 599, 601, 1000}

\* a field of one level with one cell of another
SpikeField(base, spike, at) ==
    [i \in 0..(FieldSide * FieldSide - 1) |-> IF i = at THEN spike ELSE base]

\* terrainHeight as the row-major sequence the classification operators read
HeightSeq == [j \in 1..(cols * rows) |-> terrainHeight[j - 1]]

\* initGrid at the start of the first classification pass, on a synthetic
\* height field; the mask is empty or one cell the flood test lets in
ClassifyInit ==
    /\ cols = FieldSide
    /\ rows = FieldSide
    /\ \E base \in Levels, spike \in Levels, at \in 0..(FieldSide * FieldSide - 1) :
          terrainHeight = SpikeField(base, spike, at)
    /\ expandedWater \in
          {{}} \cup {{i} : i \in {j \in 0..(FieldSide * FieldSide - 1) :
                                   terrainHeight[j] < WaterFloodBelow}}
    /\ classPc = "assign"
    /\ terrainType = [i \in 0..(FieldSide * FieldSide - 1) |-> 0]
    /\ startCorner = [x |-> 0, y |-> 0, dirX |-> 1, dirY |-> 1]
    /\ totalVisibleCells = FieldSide * FieldSide
    /\ isSaturated = InitialSaturated
    /\ creepCount = 0
    /\ resourceBoost = BoostInit
    /\ mineralsGathered = 0
    /\ vespeneGathered = 0
    /\ creepGrid = [i \in 0..(FieldSide * FieldSide - 1) |-> 0]
    /\ creepAge = [i \in 0..(FieldSide * FieldSide - 1) |-> 0]
    /\ minerals = << >>
    /\ vespene = << >>
    /\ buildings = << >>
    /\ activeEdges = << >>
    /\ NoFrame
    /\ ripples = << >>
    /\ spentBefore = FALSE
    /\ NoLocals
    /\ lastOp = "initGrid"
    /\ steps = 0
    /\ minFound = << >>
    /\ vesFound = << >>
    /\ hatcheriesSpawned = 0
    /\ placePc = "done"
    /\ placeKind = "none"
    /\ slot = 0
    /\ sampleX = 0
    /\ sampleY = 0
    /\ attempts = 0

\* first pass: water and height bands
assignTypes ==
    /\ classPc = "assign"
    /\ terrainType' = [i \in DOMAIN terrainType |->
                          FirstPassType(terrainHeight[i], i \in expandedWater)]
    /\ classPc' = "cliffs"
    /\ UNCHANGED <<terrainHeight, expandedWater>>
    /\ UNCHANGED <<worldVars, simVars, isSaturated, localVars, histVars, placeVars, driverVars>>

\* second pass: cliff detection
detectCliffs ==
    /\ classPc = "cliffs"
    /\ terrainType' = [i \in DOMAIN terrainType |->
                          CliffPassType(HeightSeq, cols, rows, i, terrainType[i])]
    /\ classPc' = "done"
    /\ UNCHANGED <<terrainHeight, expandedWater>>
    /\ UNCHANGED <<worldVars, simVars, isSaturated, localVars, histVars, placeVars, driverVars>>

ClassifyNext ==
    \/ assignTypes
    \/ detectCliffs

ClassifySpec == ClassifyInit /\ [][ClassifyNext]_vars

-----------------------------------------------------------------------------
(* Vocabulary of the properties *)

Occupied == {i \in Cells : creepGrid[i] = 1}

Frontier == SeqToSet(activeEdges)

\* cell i has an in-bounds 8-neighbour that is unoccupied in grid g
HasEmptyIn(g, i) ==
    cols > 0 /\ \E n \in 1..8 :
        LET nx == (i % cols) + neighbors[n][1]
            ny == (i \div cols) + neighbors[n][2]
        IN  InBounds(nx, ny) /\ g[ny * cols + nx] = 0

\* a step of the behaviour that is a regeneration of the world
RegenerationStep == lastOp' = "initGrid"

DepletedCount(deps) == Cardinality({i \in 1..Len(deps) : deps[i].depleted})

BuildingCount(type) ==
    Cardinality({i \in 1..Len(buildings) : buildings[i].type = type})

SqDist(dep, i) ==
    IF cols = 0 THEN 0 ELSE
    ((i % cols) - dep.x) * ((i % cols) - dep.x)
      + ((i \div cols) - dep.y) * ((i \div cols) - dep.y)

-----------------------------------------------------------------------------
(* C1 *)

FrontierComplete ==
    \A i \in Occupied : HasEmptyIn(creepGrid, i) => i \in Frontier

RemovedOnlyWhenEnclosed ==
    \A i \in Frontier :
        i \notin SeqToSet(activeEdges') => ~HasEmptyIn(creepGrid', i)

\* C1: whenever no step is running (after initGrid and after every completed
\* spreadCreep step, hatchery spawns included) every occupied cell with an
\* in-bounds unoccupied 8-neighbour is in activeEdges; and a cell leaves
\* activeEdges (other than by regeneration) only when it has no unoccupied
\* 8-neighbour left.
C1_FrontierCompleteness ==
    /\ [](pc = "idle" => FrontierComplete)
    /\ [][~RegenerationStep => RemovedOnlyWhenEnclosed]_vars

\* a completed step with a hatchery spawn, after which one occupied cell has
\* left the frontier and another is still on it with an empty neighbour
C1_Witness ==
    /\ pc = "idle"
    /\ steps >= 1
    /\ hatcheriesSpawned >= 1
    /\ \E i \in Occupied : i \notin Frontier
    /\ \E i \in Occupied : HasEmptyIn(creepGrid, i) /\ i \in Frontier

-----------------------------------------------------------------------------
(* C2 *)

-----------------------------------------------------------------------------
(* C3 *)

\* C3 (as claimed): whenever isSaturated is true, the number of cells
\* occupied in creepGrid is at least 0.98 x cols x rows.
C3_SaturatedMeansCovered ==
    isSaturated => Cardinality(Occupied) * 100 >= cols * rows * 98

-----------------------------------------------------------------------------
(* C4 *)

\* C4: a spreadCreep call on a saturated engine never enters the scan, and
\* while isSaturated is true no step other than a regeneration changes
\* creepGrid, creepAge, activeEdges, creepCount, resourceBoost, the gathered
\* counters, the deposits or the buildings list.
C4_SaturatedStepIsNoOp ==
    /\ [](isSaturated => pc = "idle")
    /\ [][(isSaturated /\ ~RegenerationStep) => UNCHANGED simVars]_vars

\* spreadCreep has been called on a saturated engine
C4_Witness ==
    isSaturated /\ lastOp = "spreadCreepNoop"

-----------------------------------------------------------------------------
(* C5 *)

\* C5 (as claimed): the cells a step scans are exactly the frontier members
\* at the start of the step; no cell added during the step is scanned.
C5_ScanIsSnapshot ==
    /\ scanned \subseteq startFrontier
    /\ (pc = "scan" /\ pos > Len(activeEdges)) => scanned = startFrontier

-----------------------------------------------------------------------------
(* C6 *)

\* C6 (as claimed): while a cell is occupied its creepAge stays within
\* [0,100] and does not decrease from one state to the next within a cycle.
C6_AgeBoundedMonotone ==
    [][~RegenerationStep =>
        \A i \in Occupied :
            /\ creepAge'[i] >= creepAge[i]
            /\ creepAge'[i] >= 0
            /\ creepAge'[i] <= MaxAge]_vars

-----------------------------------------------------------------------------
(* C7 *)

\* C7: once creepGrid[i] is 1 it stays 1 in every step that is not a
\* regeneration by initGrid.
C7_OccupancyOneWay ==
    [][~RegenerationStep => \A i \in Occupied : creepGrid'[i] = 1]_vars

\* cells occupied by growth rolls and by a hatchery spawn, two steps on
C7_Witness ==
    /\ steps >= 2
    /\ hatcheriesSpawned >= 1
    /\ Cardinality(Occupied) >= 4
    /\ \E i \in Occupied : creepAge[i] = GrowAge

-----------------------------------------------------------------------------
(* C8 *)

DiscoveredOnce ==
    /\ \A i \in 1..Len(minerals) :
          minFound[i] = (IF minerals[i].depleted THEN 1 ELSE 0)
    /\ \A i \in 1..Len(vespene) :
          vesFound[i] = (IF vespene[i].depleted THEN 1 ELSE 0)
    /\ BuildingCount("mineralpatch") = DepletedCount(minerals)
    /\ BuildingCount("extractor") = DepletedCount(vespene)

DepletedStays ==
    /\ \A i \in 1..Len(minerals) : minerals[i].depleted => minerals'[i].depleted
    /\ \A i \in 1..Len(vespene) : vespene[i].depleted => vespene'[i].depleted

\* C8: each deposit's discovery branch (counter increment, marker structure,
\* maybeSpawnHatcheryNear call) runs at most once, exactly when the deposit
\* is depleted; the 'mineralpatch' / 'extractor' structures are as many as
\* the depleted minerals / vespene deposits; and within a cycle a depleted
\* deposit stays depleted.
C8_DiscoveryAtMostOnce ==
    /\ []DiscoveredOnce
    /\ [][~RegenerationStep => DepletedStays]_vars

\* every deposit of a world with several has been discovered and the scan
\* keeps calling checkResource inside their radius
C8_Witness ==
    /\ pc = "scan"
    /\ steps >= 2
    /\ Len(minerals) >= 2
    /\ Len(vespene) >= 1
    /\ DepletedCount(minerals) = Len(minerals)
    /\ DepletedCount(vespene) = Len(vespene)
    /\ \E i \in Occupied : HasEmptyIn(creepGrid, i)

-----------------------------------------------------------------------------
(* C9 *)

\* C9 (as claimed): each depleted mineral has a creep-occupied cell at
\* squared distance < 25, each depleted vespene deposit one at < 36.
C9_DepletedOnlyWhenReached ==
    /\ \A d \in 1..Len(minerals) : minerals[d].depleted =>
          \E i \in Occupied : SqDist(minerals[d], i) < mineralRadiusSq
    /\ \A d \in 1..Len(vespene) : vespene[d].depleted =>
          \E i \in Occupied : SqDist(vespene[d], i) < vespeneRadiusSq

\* cells that are occupied or an in-bounds 8-neighbour of an occupied cell
Reach == Occupied \cup
    {i \in Cells : \E j \in Occupied :
        /\ (i % cols) - (j % cols) \in {-1, 0, 1}
        /\ (i \div cols) - (j \div cols) \in {-1, 0, 1}}

\* C9 (amended): each depleted mineral has, at squared distance < 25, a cell
\* that is creep-occupied or an in-bounds 8-neighbour of a creep-occupied
\* cell (the neighbour whose growth was evaluated); likewise < 36 for each
\* depleted vespene deposit.
C9_DepletedOnlyWhenEvaluated ==
    /\ \A d \in 1..Len(minerals) : minerals[d].depleted =>
          \E i \in Reach : SqDist(minerals[d], i) < 25
    /\ \A d \in 1..Len(vespene) : vespene[d].depleted =>
          \E i \in Reach : SqDist(vespene[d], i) < 36

\* a mineral discovered by a neighbour evaluation whose roll failed: it is
\* depleted, no occupied cell is within its radius, others remain undepleted
C9_Witness ==
    \E d \in 1..Len(minerals) :
        /\ minerals[d].depleted
        /\ \A i \in Occupied : SqDist(minerals[d], i) >= 25

-----------------------------------------------------------------------------
(* C10 *)

\* C10: mineralsGathered and vespeneGathered are never negative.
C10_GatheredNonNegative ==
    mineralsGathered >= 0 /\ vespeneGathered >= 0

\* a hatchery has been paid for and the counters are back at zero
C10_Witness ==
    hatcheriesSpawned >= 1 /\ mineralsGathered = 0 /\ vespeneGathered = 0

-----------------------------------------------------------------------------
(* C11 *)

\* 1.0 + 0.5 per depleted mineral + 1.0 per depleted vespene deposit
UnclampedBoost ==
    BoostInit + BoostMineral * DepletedCount(minerals)
              + BoostVespene * DepletedCount(vespene)

\* C11: resourceBoost always equals min(3.0, 1.0 + 0.5 x depleted minerals
\* + 1.0 x depleted vespene deposits), so it lies in [1.0, 3.0]; and it
\* does not decrease in any step that is not a regeneration.
C11_BoostIsClampedSum ==
    /\ [](/\ resourceBoost = Min(BoostMax, UnclampedBoost)
          /\ resourceBoost >= BoostInit
          /\ resourceBoost <= BoostMax)
    /\ [][~RegenerationStep => resourceBoost' >= resourceBoost]_vars

\* discoveries worth more than 3.0 have been made and the boost is 3.0
C11_Witness ==
    /\ UnclampedBoost > BoostMax
    /\ resourceBoost = BoostMax
    /\ DepletedCount(minerals) >= 1
    /\ DepletedCount(vespene) >= 1

-----------------------------------------------------------------------------
(* C12 *)

\* a step that is a neighbour evaluation calling checkResource
CheckResourceStep == pc = "scan" /\ pc' = "roll"

\* what a discovery does before it calls maybeSpawnHatcheryNear: one counter
\* incremented, one marker structure appended
OnlyDiscoveryEffects ==
    LET dm == DepletedCount(minerals') - DepletedCount(minerals)
        dv == DepletedCount(vespene') - DepletedCount(vespene)
    IN  /\ mineralsGathered' = mineralsGathered + dm
        /\ vespeneGathered' = vespeneGathered + dv
        /\ Len(buildings') = Len(buildings) + dm + dv
        /\ SubSeq(buildings', 1, Len(buildings)) = buildings
        /\ \A i \in (Len(buildings) + 1)..Len(buildings') :
              buildings'[i].type # "hatchery"

\* C12: a maybeSpawnHatcheryNear call that does not spawn (gate not met,
\* coin flip failed, or no occupied walkable candidate in the radius-4
\* square) changes nothing: across the checkResource call that made it,
\* creepGrid, creepAge, creepCount and activeEdges are unchanged, and the
\* gathered counters and the buildings list carry the discovery's own
\* increment and marker only.
C12_NoSpawnChangesNothing ==
    [][(CheckResourceStep /\ hatcheriesSpawned' = hatcheriesSpawned) =>
          /\ UNCHANGED <<creepGrid, creepAge, creepCount, activeEdges>>
          /\ OnlyDiscoveryEffects]_vars

\* a discovery with the gate met and no occupied walkable cell around the
\* deposit has just run: the call aborted for lack of a candidate
C12_Witness ==
    /\ pc = "roll"
    /\ resMod > 1
    /\ hatcheriesSpawned = 0
    /\ SpawnGate(Sim)
    /\ buildings[Len(buildings)].type # "hatchery"
    /\ Candidates(Sim, buildings[Len(buildings)].x, buildings[Len(buildings)].y) = {}

-----------------------------------------------------------------------------
(* C13 *)

\* C13: once isSaturated is true it stays true in every step that is not a
\* regeneration by initGrid (spreadCreep calls included), and isSaturated is
\* false in the state initGrid leaves.
C13_SaturatedAbsorbing ==
    /\ [][(isSaturated /\ ~RegenerationStep) => isSaturated']_vars
    /\ [](lastOp = "initGrid" => ~isSaturated)

\* a fully covered, saturated grid on which spreadCreep has been called
\* again
C13_Witness ==
    /\ isSaturated
    /\ lastOp = "spreadCreepNoop"
    /\ cols * rows > 0
    /\ Cardinality(Occupied) = cols * rows

-----------------------------------------------------------------------------
(* C14 *)

\* C14: no step other than a regeneration by initGrid (no spreadCreep step,
\* resource discovery or hatchery spawn) changes any element of terrainType
\* or terrainHeight.
C14_TerrainReadOnly ==
    [][~RegenerationStep => UNCHANGED <<terrainType, terrainHeight>>]_vars

\* a completed step in which creep grew, deposits of both kinds were
\* discovered and a hatchery was spawned
C14_Witness ==
    /\ pc = "idle"
    /\ steps >= 1
    /\ hatcheriesSpawned >= 1
    /\ BuildingCount("mineralpatch") >= 1
    /\ BuildingCount("extractor") >= 1
    /\ BuildingCount("hatchery") >= 2
    /\ Cardinality(Occupied) >= 3

-----------------------------------------------------------------------------
(* C15 *)

\* C15 (as claimed): on a zero-sized grid the state initGrid leaves is
\* saturated, counts no occupied cell, has an empty frontier and records no
\* deposit.
C15_ZeroGridEmptyAndSaturated ==
    (cols * rows = 0 /\ lastOp = "initGrid") =>
        /\ isSaturated
        /\ creepCount = 0
        /\ activeEdges = << >>
        /\ minerals = << >>
        /\ vespene = << >>

-----------------------------------------------------------------------------
(* C16 *)

\* C16 (as claimed): a slot whose loop ended on a valid sample, the 100th
\* included, records a deposit, and no slot takes more than 100 samples.
C16_ValidSampleIsRecorded ==
    /\ [](attempts <= AttemptLimit)
    /\ [][(placePc = "record" /\ ~SampleRejected(sampleX, sampleY)) =>
            Len(minerals') + Len(vespene') = Len(minerals) + Len(vespene) + 1]_vars

-----------------------------------------------------------------------------
(* C17 *)

\* C17 (as claimed): every recorded deposit lies on an in-bounds cell whose
\* terrain type is 0, 1 or 2 and which is not creep-occupied during
\* generation, and has depleted = false.
C17_DepositsOnFreeWalkableCells ==
    \A d \in SeqToSet(minerals) \cup SeqToSet(vespene) :
        /\ InBounds(d.x, d.y)
        /\ terrainType[d.y * cols + d.x] <= 2
        /\ creepGrid[d.y * cols + d.x] = 0
        /\ ~d.depleted

-----------------------------------------------------------------------------
(* C18 *)

\* C18 (as claimed, on grids that have cells): no two recorded deposits,
\* of the same or of different kinds, share a grid cell.
C18_DepositsDoNotOverlap ==
    cols * rows > 0 =>
        LET all == minerals \o vespene IN
        \A i, j \in 1..Len(all) :
            i # j => <<all[i].x, all[i].y>> # <<all[j].x, all[j].y>>

-----------------------------------------------------------------------------
(* C19 *)

\* n is a 4-directional neighbour of i
Orthogonal(i, n) ==
    \/ (n \div cols = i \div cols /\ Abs((n % cols) - (i % cols)) = 1)
    \/ (n % cols = i % cols /\ Abs((n \div cols) - (i \div cols)) = 1)

\* n is a diagonal neighbour of i
Diagonal(i, n) ==
    Abs((n % cols) - (i % cols)) = 1 /\ Abs((n \div cols) - (i \div cols)) = 1

\* cell i has an in-bounds 4-directional neighbour whose height differs
\* from its own by more than 0.08
SteepAt(i) ==
    \E n \in Cells :
        /\ Orthogonal(i, n)
        /\ Abs(terrainHeight[n] - terrainHeight[i]) * 100 > 8 * 1000

BandAt(i) ==
    IF terrainHeight[i] * 100 < 32 * 1000 THEN 0
    ELSE IF terrainHeight[i] * 10 < 6 * 1000 THEN 1
    ELSE 2

\* a single 1.0 spike at cell i in a 0.0 field without water
IsUnitSpike(i) ==
    /\ expandedWater = {}
    /\ terrainHeight[i] = 1000
    /\ \A j \in Cells \ {i} : terrainHeight[j] = 0

\* C19: after the two classification passes every cell has one of the five
\* types: water iff it is in the expanded water mask (water is never turned
\* into cliff wall); otherwise cliff wall iff some in-bounds 4-directional
\* neighbour differs in height by more than 0.08; otherwise low ground, mid
\* ground or high plateau by its height band (< 0.32, < 0.6, else).  For a
\* single 1.0 spike in a 0.0 field the spike and its orthogonal neighbours
\* are cliff wall and no diagonal neighbour is.
C19_ClassificationRule ==
    classPc = "done" =>
        /\ \A i \in Cells :
              /\ terrainType[i] \in 0..4
              /\ terrainType[i] = 4 <=> i \in expandedWater
              /\ i \notin expandedWater =>
                    /\ terrainType[i] = 3 <=> SteepAt(i)
                    /\ terrainType[i] # 3 => terrainType[i] = BandAt(i)
        /\ \A i \in Cells : IsUnitSpike(i) =>
              /\ terrainType[i] = 3
              /\ \A n \in Cells :
                    /\ Orthogonal(i, n) => terrainType[n] = 3
                    /\ Diagonal(i, n) => terrainType[n] # 3

\* the classified field of a 1.0 spike in the middle of a 0.0 field: four
\* orthogonal and four diagonal neighbours
C19_Witness ==
    /\ classPc = "done"
    /\ cols >= 3
    /\ rows >= 3
    /\ IsUnitSpike(cols + 1)
    /\ Cardinality({n \in Cells : terrainType[n] = 3}) = 5
    /\ \A n \in Cells : Diagonal(cols + 1, n) => terrainType[n] = 0

-----------------------------------------------------------------------------
(* C20 *)

\* C20 (as claimed, on grids that have cells): creepCount equals the number
\* of cells i with creepGrid[i] = 1.
C20_CountIsExact ==
    cols * rows > 0 => creepCount = Cardinality(Occupied)

-----------------------------------------------------------------------------
(* C21 *)

\* C21: mineralsGathered is the number of depleted minerals less 2 per
\* hatchery spawned by maybeSpawnHatcheryNear, vespeneGathered the number of
\* depleted vespene deposits less 1 per spawned hatchery; so the spawned
\* hatcheries number at most floor(depleted minerals / 2) and at most the
\* depleted vespene deposits.
C21_AccountingConserved ==
    /\ mineralsGathered =
          DepletedCount(minerals) - HATCHERY_MINERAL_COST * hatcheriesSpawned
    /\ vespeneGathered =
          DepletedCount(vespene) - HATCHERY_VESPENE_COST * hatcheriesSpawned
    /\ hatcheriesSpawned <= DepletedCount(minerals) \div HATCHERY_MINERAL_COST
    /\ hatcheriesSpawned <= DepletedCount(vespene) \div HATCHERY_VESPENE_COST

\* a hatchery has been paid for and a later discovery has raised a counter
\* again
C21_Witness ==
    /\ hatcheriesSpawned >= 1
    /\ vespeneGathered >= 1
    /\ DepletedCount(minerals) >= 2
    /\ DepletedCount(vespene) >= 2

-----------------------------------------------------------------------------
(* C22 *)

\* a step in which maybeSpawnHatcheryNear spawned
SpawnStep == CheckResourceStep /\ hatcheriesSpawned' = hatcheriesSpawned + 1

\* in-bounds cells of the 3x3 block around cell b
Block3x3(b) ==
    {n \in Cells : /\ (n % cols) - (b % cols) \in {-1, 0, 1}
                   /\ (n \div cols) - (b \div cols) \in {-1, 0, 1}}

\* C22: when maybeSpawnHatcheryNear spawns, the new hatchery (the last
\* structure) stands on an in-bounds cell of the radius-4 square around the
\* discovered deposit (the structure before it) that was occupied before the
\* call and has terrain type 0, 1 or 2; right after the call every cell of
\* its 3x3 block with terrain type 0, 1 or 2 is occupied with age >= 20, and
\* every cliff or water cell of the block has its occupancy and age
\* unchanged.
C22_SpawnPostcondition ==
    [][SpawnStep =>
        LET h == buildings'[Len(buildings')]
            d == buildings'[Len(buildings') - 1]
            b == h.y * cols + h.x
        IN  /\ h.type = "hatchery"
            /\ d.type \in {"mineralpatch", "extractor"}
            /\ InBounds(h.x, h.y)
            /\ h.x - d.x \in -4..4
            /\ h.y - d.y \in -4..4
            /\ creepGrid[b] = 1
            /\ terrainType[b] \in {0, 1, 2}
            /\ \A n \in Block3x3(b) :
                  IF terrainType[n] \in {0, 1, 2}
                  THEN creepGrid'[n] = 1 /\ creepAge'[n] >= 20 * AgeUnit
                  ELSE creepGrid'[n] = creepGrid[n] /\ creepAge'[n] = creepAge[n]]_vars

\* right after a spawn whose 3x3 block holds a cliff or water cell that the
\* spawn left unoccupied
C22_Witness ==
    /\ pc = "roll"
    /\ hatcheriesSpawned >= 1
    /\ buildings[Len(buildings)].type = "hatchery"
    /\ LET h == buildings[Len(buildings)] IN
         \E n \in Block3x3(h.y * cols + h.x) :
             terrainType[n] > 2 /\ creepGrid[n] = 0


\* C23: on a grid with cells, when spreadCreep is called again and again
\* and a growth roll of positive chance that is made again and again
\* succeeds at some time, the cycle becomes saturated; and as long as it is
\* not, some frontier cell has an empty in-bounds neighbour whose spread
\* chance is positive.
GrowableNeighbour ==
    \E idx \in SeqToSet(activeEdges), d \in 1..8 :
        LET nx == (idx % cols) + neighbors[d][1]
            ny == (idx \div cols) + neighbors[d][2]
        IN  /\ InBounds(nx, ny)
            /\ creepGrid[ny * cols + nx] = 0
            /\ terrainSpreadMods[terrainType[ny * cols + nx] + 1] > 0
            /\ terrainHeight[ny * cols + nx] < 2000

NonEmptyGrid == cols > 0 /\ rows > 0

NeverStuck ==
    (NonEmptyGrid /\ pc = "idle" /\ ~isSaturated /\ ~ReachedSaturation)
        => GrowableNeighbour

FreshWorld ==
    /\ ~isSaturated
    /\ resourceBoost = BoostUnit
    /\ mineralsGathered = 0
    /\ vespeneGathered = 0
    /\ creepCount = 1
    /\ \E seed \in Cells :
          /\ Occupied = {seed}
          /\ creepAge[seed] = 50 * AgeUnit
          /\ activeEdges = << seed >>
          /\ buildings = << [x |-> seed % cols, y |-> seed \div cols,
                              type |-> "hatchery"] >>
    /\ DepletedCount(minerals) = 0
    /\ DepletedCount(vespene) = 0

AfterInitGrid == (lastOp = "initGrid" /\ NonEmptyGrid) => FreshWorld

C24_RegenerationResets ==
    /\ []AfterInitGrid
    /\ [][(RegenerationStep /\ cols' > 0 /\ rows' > 0) => FreshWorld']_vars

C24_Witness ==
    /\ lastOp = "initGrid"
    /\ spentBefore
    /\ NonEmptyGrid
    /\ Len(minerals) > 0

\* C25: protocol of animate.  As stated: once the cycle is saturated no
\* spreadCreep step starts and no ripple is spawned; animate calls initGrid
\* only in a frame where isSaturated holds and the updated ripple list is
\* empty; every ripple has a positive speed and a radius within maxRadius,
\* and a saturated cycle is regenerated, after which it is growing again.
\* The statement fails in the frame whose own spreadCreep step reaches
\* saturation: if (!isSaturated) is tested once, before spreadCreep, and
\* spawnRipple still runs in that frame.
NoStepWhenSaturated ==
    [][(isSaturated /\ ~RegenerationStep) => pc' = "idle"]_vars

NoRippleWhenSaturated ==
    [][(isSaturated /\ ~RegenerationStep) => Len(ripples') <= Len(ripples)]_vars

RegeneratesOnlyWhenDrained ==
    [][(RegenerationStep /\ framePc = "update")
          => (isSaturated /\ updateRipples(ripples) = << >>)]_vars

RipplesAlive ==
    \A i \in 1..Len(ripples) :
        ripples[i].speed > 0 /\ ripples[i].radius <= ripples[i].maxRadius

SaturatedIsRegenerated == isSaturated ~> (lastOp = "initGrid" /\ ~isSaturated)

C25_DriverProtocolAsStated ==
    /\ NoStepWhenSaturated
    /\ NoRippleWhenSaturated
    /\ RegeneratesOnlyWhenDrained
    /\ []RipplesAlive
    /\ SaturatedIsRegenerated

\* C25, amended: a frame that begins saturated starts no spreadCreep step and
\* spawns no ripple; with isSaturated set, a ripple is spawned only in the
\* frame whose own spreadCreep call has just returned; the rest as stated.
RippleOnlyInSaturatingFrame ==
    [][(isSaturated /\ ~RegenerationStep /\ Len(ripples') > Len(ripples))
          => (framePc = "spreading" /\ inGrowing)]_vars

QuietWhenFrameBeginsSaturated ==
    [][(framePc # "wait" /\ ~inGrowing /\ ~RegenerationStep)
          => (pc' = "idle" /\ Len(ripples') <= Len(ripples))]_vars

C25_DriverProtocol ==
    /\ NoStepWhenSaturated
    /\ RippleOnlyInSaturatingFrame
    /\ QuietWhenFrameBeginsSaturated
    /\ RegeneratesOnlyWhenDrained
    /\ []RipplesAlive
    /\ SaturatedIsRegenerated

C25_Witness ==
    /\ isSaturated
    /\ framePc = "update"
    /\ ~inGrowing
    /\ Len(ripples) = 1
    /\ ripples[1].maxRadius # InitialRipple.maxRadius
    /\ updateRipples(ripples) = << >>

\* C26: within one spreadCreep step the boost factor of every growth roll
\* is the value resourceBoost had when the step began; a discovery made
\* during the step raises resourceBoost, yet the rolls of this step keep the
\* old factor, and only the discovery modifier (2.0 or 3.0) of the neighbour
\* enters the same roll.
RollUsesEntryBoost ==
    (pc = "roll") =>
        /\ RollBoost = boostAtEntry
        /\ resMod \in {1, 2, 3}

NextStepSeesBoost ==
    [][(pc = "idle" /\ pc' = "scan") => currentBoost' = resourceBoost]_vars

C26_BoostSnapshot == []RollUsesEntryBoost /\ NextStepSeesBoost

C26_Witness ==
    /\ pc = "roll"
    /\ resMod = 1
    /\ resourceBoost > boostAtEntry

=============================================================================
